---- MODULE Spec2Model ----
(***************************************************************************)
(* murmur: room membership, knock admission and per-peer audio routing.    *)
(*                                                                         *)
(* Every client runs the same peer.js / state.js / audio.js / ui.js code.  *)
(* cl[c] is the whole JavaScript state of client c (the reactive store,    *)
(* the module variables of peer.js and audio.js, its timers and pending    *)
(* async continuations, and the transport's view of its connections).      *)
(* net holds the messages in flight between two clients.                   *)
(***************************************************************************)
EXTENDS Integers, Sequences, FiniteSets, TLC

VARIABLES cl, net, budget

vars == <<cl, net, budget>>

\* ------------------------------------------------------------------ bounds

\* createRoom/joinRoom calls that may be made in a run: by the one client of
\* Spec and SpecAudio, and by all clients together in SpecMesh.
MaxSessions == 2
MeshSessions == 3
WireSessions == 1
\* createRoom/joinRoom calls and toggleKnockMode calls in SpecTrio.
TrioSessions == 3
TrioToggles == 1
\* toggleKnockMode calls all clients together may make in a run.
MaxToggles == 2
\* Rejection cooldown timers one client may have running at once.
MaxTimers == 2
\* Messages in flight from one client to another.
MaxQueue == 4

\* ------------------------------------------------------------------ values

Clients == {"A", "B", "C"}

\* null of a peer id / creatorId / whisperTarget.
Null == "null"

\* Room codes genCode can draw (4 characters of a 32-letter alphabet in the
\* source; two codes stand for "the same code" and "another code").
Codes == {"AAAA", "BBBB"}

\* localStorage username of each client (genName).
UserName(c) == IF c = "A" THEN "User-A" ELSE IF c = "B" THEN "User-B" ELSE "User-C"

UserNames == {UserName(c) : c \in Clients}

\* ------------------------------------------------------------------ helpers

HasId(seq, p) == \E i \in 1..Len(seq) : seq[i].peerId = p

Ids(seq) == {seq[i].peerId : i \in 1..Len(seq)}

Find(seq, p) == seq[CHOOSE i \in 1..Len(seq) : seq[i].peerId = p /\ \A j \in 1..(i - 1) : seq[j].peerId # p]

Without(seq, p) == SelectSeq(seq, LAMBDA k : k.peerId # p)

\* makePeer(peerId, username): username || peerId.
makePeer(peerId, username) ==
  [peerId |-> peerId,
   username |-> IF username = Null THEN peerId ELSE username,
   isTalking |-> FALSE, isIdle |-> FALSE, isWhispering |-> FALSE]

\* No connection / nothing sent on a connection.
NoConn == [h |-> 0, ph |-> 0]

NoTx == [track |-> "none", adds |-> 0]

\* state.js initial, the module variables of peer.js and audio.js at load.
initial(c) ==
  [selfId |-> c,
   view |-> "loading", roomCode |-> "", myPeerId |-> "", username |-> UserName(c),
   peers |-> <<>>, isTalking |-> FALSE, whisperTarget |-> Null, noMic |-> FALSE,
   knockEnabled |-> FALSE, admitted |-> TRUE, pendingKnocks |-> <<>>,
   creatorId |-> Null,
   room |-> 0, peerTrackState |-> [p \in {} |-> "real"], activeWhisperTarget |-> Null,
   pendingPeerInfo |-> <<>>, admitTimeout |-> 0,
   localStream |-> FALSE, audioCtx |-> FALSE, enabled |-> FALSE,
   admitTimers |-> <<>>, rejectTimers |-> <<>>, pend |-> <<>>,
   booted |-> FALSE, nsess |-> 0, handles |-> {},
   conn |-> [p \in Clients |-> NoConn], tx |-> [p \in Clients |-> NoTx],
   out |-> <<>>]

\* ------------------------------------------------------------------ messages

\* One shape for the payloads of every channel (room.makeAction).
Msg(ch, type, flag, id, name) ==
  [ch |-> ch, type |-> type, flag |-> flag, id |-> id, name |-> name]

KnockRequired == Msg("knock", "required", FALSE, Null, Null)

KnockAdmitted == Msg("knock", "admitted", FALSE, Null, Null)

KnockMode(enabled, creatorId) == Msg("knock", "mode", enabled, creatorId, Null)

KnockReply(targetPeerId, approved) == Msg("knock", "reply", approved, targetPeerId, Null)

UsernameMsg(username) == Msg("username", "", FALSE, Null, username)

WhisperMsg(isTalking) == Msg("whisper", "", isTalking, Null, Null)

TalkingMsg(isTalking) == Msg("talking", "", isTalking, Null, Null)

RenameMsg(username) == Msg("rename", "", FALSE, Null, username)

IdleMsg(idle) == Msg("idle", "", idle, Null, Null)

\* A send function of the current room: to one peer, or to "all" connected peers.
\* The send functions are null exactly when room is null (setupRoom / leaveRoom);
\* a call through a null one sends nothing.
Send(s, to, m) ==
  IF s.room = 0 THEN s ELSE [s EXCEPT !.out = Append(@, [to |-> to, msg |-> m])]

\* ------------------------------------------------------------------ transport commands

\* Is p connected through the current room handle?
Linked(s, p) == s.room # 0 /\ s.conn[p].h = s.room

\* room.addStream(stream, peerId): the stream carries the real microphone track.
addStream(s, p) ==
  IF Linked(s, p)
  THEN [s EXCEPT !.tx[p] = [track |-> IF @.track = "none" THEN "real" ELSE @.track,
                            adds |-> @.adds + 1]]
  ELSE s

\* room.replaceTrack(old, new, stream, peerId): only the connection to peerId.
replaceTrack(s, old, new, p) ==
  IF Linked(s, p) /\ s.tx[p].track = old
  THEN [s EXCEPT !.tx[p].track = new]
  ELSE s

\* ------------------------------------------------------------------ peer.js helpers

\* peerTrackState.get(p) || 'real'
TrackOf(s, p) == IF p \in DOMAIN s.peerTrackState THEN s.peerTrackState[p] ELSE "real"

SetTrack(pts, p, v) == [q \in (DOMAIN pts) \cup {p} |-> IF q = p THEN v ELSE pts[q]]

DelTrack(pts, p) == [q \in (DOMAIN pts) \ {p} |-> pts[q]]

\* updatePeer applying the update to every record of the roster.
updatePeerEveryone(s, peerId, field, value) ==
  [s EXCEPT !.peers = [i \in 1..Len(@) |-> [@[i] EXCEPT ![field] = value]]]

updatePeer(s, peerId, field, value) ==
  [s EXCEPT !.peers = [i \in 1..Len(@) |->
      IF @[i].peerId = peerId THEN [@[i] EXCEPT ![field] = value] ELSE @[i]]]

removeKnock(s, peerId) == [s EXCEPT !.pendingKnocks = Without(@, peerId)]

\* moveKnockToPeers without its check that the peer is already in state.peers.
moveKnockToPeersAlways(s, peerId) ==
  LET username == IF HasId(s.pendingKnocks, peerId)
                  THEN Find(s.pendingKnocks, peerId).username ELSE Null
  IN [s EXCEPT !.peers = Append(@, makePeer(peerId, username))]

moveKnockToPeers(s, peerId) ==
  IF HasId(s.peers, peerId) THEN s
  ELSE LET username == IF HasId(s.pendingKnocks, peerId)
                       THEN Find(s.pendingKnocks, peerId).username ELSE Null
       IN [s EXCEPT !.peers = Append(@, makePeer(peerId, username))]

\* for (const k of state.pendingKnocks) moveKnockToPeers(k.peerId)
RECURSIVE MoveKnocks(_, _)
MoveKnocks(s, ks) ==
  IF ks = <<>> THEN s ELSE MoveKnocks(moveKnockToPeers(s, Head(ks).peerId), Tail(ks))

\* clearTimeout(admitTimeout); admitTimeout = null
ClearAdmitTimeout(s) ==
  IF s.admitTimeout = 0 THEN s
  ELSE [s EXCEPT !.admitTimers = SelectSeq(@, LAMBDA t : t # s.admitTimeout),
                 !.admitTimeout = 0]

RECURSIVE AddStreams(_, _)
AddStreams(s, ps) ==
  IF ps = <<>> THEN s
  ELSE AddStreams(IF Head(ps).peerId = s.selfId THEN s ELSE addStream(s, Head(ps).peerId),
                  Tail(ps))

\* admitSelf without its guard on state.admitted.
admitSelfAgain(s) ==
  LET s1 == ClearAdmitTimeout(s)
      peers == <<makePeer(s.selfId, s.username)>> \o
               [i \in 1..Len(s.pendingPeerInfo) |->
                  makePeer(s.pendingPeerInfo[i].peerId, s.pendingPeerInfo[i].username)]
      s2 == [s1 EXCEPT !.admitted = TRUE, !.view = "room", !.peers = peers,
                       !.pendingPeerInfo = <<>>]
  IN IF s2.localStream /\ s2.room # 0 THEN AddStreams(s2, s2.peers) ELSE s2

\* admitSelf without pendingPeerInfo.clear().
admitSelfKeepPending(s) ==
  IF s.admitted THEN s
  ELSE LET s1 == ClearAdmitTimeout(s)
           peers == <<makePeer(s.selfId, s.username)>> \o
                    [i \in 1..Len(s.pendingPeerInfo) |->
                       makePeer(s.pendingPeerInfo[i].peerId, s.pendingPeerInfo[i].username)]
           s2 == [s1 EXCEPT !.admitted = TRUE, !.view = "room", !.peers = peers]
       IN IF s2.localStream /\ s2.room # 0 THEN AddStreams(s2, s2.peers) ELSE s2

admitSelf(s) ==
  IF s.admitted THEN s
  ELSE LET s1 == ClearAdmitTimeout(s)
           peers == <<makePeer(s.selfId, s.username)>> \o
                    [i \in 1..Len(s.pendingPeerInfo) |->
                       makePeer(s.pendingPeerInfo[i].peerId, s.pendingPeerInfo[i].username)]
           s2 == [s1 EXCEPT !.admitted = TRUE, !.view = "room", !.peers = peers,
                            !.pendingPeerInfo = <<>>]
       IN IF s2.localStream /\ s2.room # 0 THEN AddStreams(s2, s2.peers) ELSE s2

\* ------------------------------------------------------------------ receive handlers

getUsername(s, username, peerId) ==
  LET s1 == updatePeer(s, peerId, "username", username)
  IN [s1 EXCEPT
        !.pendingKnocks = [i \in 1..Len(@) |->
            IF @[i].peerId = peerId THEN [@[i] EXCEPT !.username = username] ELSE @[i]],
        !.pendingPeerInfo = [i \in 1..Len(@) |->
            IF @[i].peerId = peerId THEN [@[i] EXCEPT !.username = username] ELSE @[i]]]

getTalking(s, isTalking, peerId) == updatePeer(s, peerId, "isTalking", isTalking)

getWhisper(s, isTalking, peerId) == updatePeer(s, peerId, "isWhispering", isTalking)

getRename(s, username, peerId) == updatePeer(s, peerId, "username", username)

getIdle(s, idle, peerId) == updatePeer(s, peerId, "isIdle", idle)

\* A mode handler that accepts a change only from the creator it knows.
getKnockModeFromCreator(s, msg) ==
  IF s.creatorId # Null /\ msg.id # s.creatorId THEN s
  ELSE LET s1 == [s EXCEPT !.knockEnabled = msg.flag, !.creatorId = msg.id]
       IN IF ~msg.flag /\ Len(s1.pendingKnocks) > 0
          THEN [MoveKnocks(s1, s1.pendingKnocks) EXCEPT !.pendingKnocks = <<>>]
          ELSE s1

\* msg.type === 'mode'
getKnockMode(s, msg) ==
  LET s1 == [s EXCEPT !.knockEnabled = msg.flag, !.creatorId = msg.id]
  IN IF ~msg.flag /\ Len(s1.pendingKnocks) > 0
     THEN [MoveKnocks(s1, s1.pendingKnocks) EXCEPT !.pendingKnocks = <<>>]
     ELSE s1

\* msg.type === 'reply'; a denial arms setTimeout(leaveRoom + createRoom, 2000).
getKnockReply(s, msg) ==
  IF msg.id = s.selfId
  THEN IF msg.flag
       THEN admitSelf(s)
       ELSE [s EXCEPT !.view = "rejected", !.rejectTimers = Append(@, s.room)]
  ELSE IF s.admitted
       THEN removeKnock(IF msg.flag THEN moveKnockToPeers(s, msg.id) ELSE s, msg.id)
       ELSE s

\* getKnock((msg, peerId) => ...): 'required' has no branch.
getKnock(s, msg, peerId) ==
  IF msg.type = "admitted" THEN admitSelf(s)
  ELSE IF msg.type = "mode" THEN getKnockMode(s, msg)
  ELSE IF msg.type = "reply" THEN getKnockReply(s, msg)
  ELSE s

\* The receive handler of the message's channel.
Receive(s, msg, peerId) ==
  IF msg.ch = "knock" THEN getKnock(s, msg, peerId)
  ELSE IF msg.ch = "username" THEN getUsername(s, msg.name, peerId)
  ELSE IF msg.ch = "talking" THEN getTalking(s, msg.flag, peerId)
  ELSE IF msg.ch = "whisper" THEN getWhisper(s, msg.flag, peerId)
  ELSE IF msg.ch = "rename" THEN getRename(s, msg.name, peerId)
  ELSE IF msg.ch = "idle" THEN getIdle(s, msg.flag, peerId)
  ELSE s

\* ------------------------------------------------------------------ peer lifecycle

\* room.onPeerJoin, admitted and knockEnabled.
onPeerJoinKnock(s, peerId) ==
  LET s1 == IF HasId(s.pendingKnocks, peerId) THEN s
            ELSE [s EXCEPT !.pendingKnocks =
                     Append(@, [peerId |-> peerId, username |-> peerId])]
      s2 == Send(s1, peerId, KnockRequired)
      s3 == Send(s2, peerId,
                 KnockMode(TRUE, IF s2.creatorId # Null THEN s2.creatorId ELSE s2.selfId))
      s4 == IF s3.localStream THEN addStream(s3, peerId) ELSE s3
  IN Send(s4, peerId, UsernameMsg(s4.username))

\* The open branch without the check that the peer is already in the roster.
onPeerJoinOpenAppends(s, peerId) ==
  LET s1 == [s EXCEPT !.peers = Append(@, makePeer(peerId, Null))]
      s2 == Send(s1, peerId, KnockAdmitted)
      s3 == Send(s2, peerId, UsernameMsg(s2.username))
  IN IF s3.localStream THEN addStream(s3, peerId) ELSE s3

\* room.onPeerJoin, admitted and not knockEnabled.
onPeerJoinOpen(s, peerId) ==
  LET s1 == IF HasId(s.peers, peerId) THEN s
            ELSE [s EXCEPT !.peers = Append(@, makePeer(peerId, Null))]
      s2 == Send(s1, peerId, KnockAdmitted)
      s3 == Send(s2, peerId, UsernameMsg(s2.username))
  IN IF s3.localStream
     THEN LET s4 == addStream(s3, peerId)
          IN IF s4.activeWhisperTarget # Null /\ peerId # s4.activeWhisperTarget
                /\ s4.localStream /\ s4.audioCtx
             THEN [replaceTrack(s4, "real", "silent", peerId)
                     EXCEPT !.peerTrackState = SetTrack(@, peerId, "silent")]
             ELSE s4
     ELSE s3

\* The not-admitted branch forwarding the stream as the admitted branches do.
onPeerJoinKnockingStreams(s, peerId) ==
  LET s1 == [s EXCEPT !.pendingPeerInfo =
               IF HasId(@, peerId) THEN @
               ELSE Append(@, [peerId |-> peerId, username |-> peerId])]
      s2 == IF s1.localStream THEN addStream(s1, peerId) ELSE s1
  IN Send(s2, peerId, UsernameMsg(s2.username))

\* room.onPeerJoin, not admitted.
onPeerJoinKnocking(s, peerId) ==
  LET s1 == [s EXCEPT !.pendingPeerInfo =
               IF HasId(@, peerId)
               THEN [i \in 1..Len(@) |->
                       IF @[i].peerId = peerId THEN [@[i] EXCEPT !.username = peerId] ELSE @[i]]
               ELSE Append(@, [peerId |-> peerId, username |-> peerId])]
  IN Send(s1, peerId, UsernameMsg(s1.username))

onPeerJoin(s, peerId) ==
  IF s.admitted
  THEN IF s.knockEnabled THEN onPeerJoinKnock(s, peerId) ELSE onPeerJoinOpen(s, peerId)
  ELSE onPeerJoinKnocking(s, peerId)

\* onPeerLeave without the creator check at its end.
onPeerLeaveKeepMode(s, peerId) ==
  [removeKnock(s, peerId) EXCEPT
     !.peers = Without(s.peers, peerId),
     !.pendingPeerInfo = Without(@, peerId),
     !.peerTrackState = DelTrack(@, peerId)]

onPeerLeave(s, peerId) ==
  LET s1 == [removeKnock(s, peerId) EXCEPT
               !.peers = Without(s.peers, peerId),
               !.pendingPeerInfo = Without(@, peerId),
               !.peerTrackState = DelTrack(@, peerId)]
  IN IF peerId = s1.creatorId
     THEN [s1 EXCEPT !.knockEnabled = FALSE, !.creatorId = Null]
     ELSE s1

\* ------------------------------------------------------------------ whisper routing

\* getRealTrack() && getSilentTrack() && room && getStream()
CanRoute(s) == s.localStream /\ s.audioCtx /\ s.room # 0

\* The loop body replacing the track of every other peer whatever its state,
\* without recording it.
startWhisperPeerUnrecorded(s, p, targetPeerId) ==
  IF p = s.selfId THEN s
  ELSE IF p = targetPeerId
       THEN replaceTrack(s, "silent", "real", p)
       ELSE replaceTrack(s, "real", "silent", p)

\* One iteration of startWhisper's loop over state.peers.
startWhisperPeer(s, p, targetPeerId) ==
  IF p = s.selfId THEN s
  ELSE LET current == TrackOf(s, p)
       IN IF p = targetPeerId
          THEN IF current = "silent"
               THEN [replaceTrack(s, "silent", "real", p)
                       EXCEPT !.peerTrackState = SetTrack(@, p, "real")]
               ELSE s
          ELSE IF current = "real"
               THEN [replaceTrack(s, "real", "silent", p)
                       EXCEPT !.peerTrackState = SetTrack(@, p, "silent")]
               ELSE s

RECURSIVE startWhisperLoop(_, _, _)
startWhisperLoop(s, ps, targetPeerId) ==
  IF ps = <<>> THEN s
  ELSE startWhisperLoop(startWhisperPeer(s, Head(ps).peerId, targetPeerId), Tail(ps),
                        targetPeerId)

startWhisper(s, targetPeerId) ==
  IF ~CanRoute(s) THEN s
  ELSE LET s1 == [s EXCEPT !.activeWhisperTarget = targetPeerId, !.enabled = TRUE]
       IN Send(startWhisperLoop(s1, s1.peers, targetPeerId), targetPeerId, WhisperMsg(TRUE))

\* One iteration of stopWhisper's loop over state.peers.
stopWhisperPeer(s, p) ==
  IF p = s.selfId THEN s
  ELSE IF TrackOf(s, p) = "silent"
       THEN [replaceTrack(s, "silent", "real", p)
               EXCEPT !.peerTrackState = SetTrack(@, p, "real")]
       ELSE s

RECURSIVE stopWhisperLoop(_, _)
stopWhisperLoop(s, ps) ==
  IF ps = <<>> THEN s ELSE stopWhisperLoop(stopWhisperPeer(s, Head(ps).peerId), Tail(ps))

stopWhisper(s, targetPeerId) ==
  IF ~CanRoute(s) THEN s
  ELSE LET s1 == [s EXCEPT !.activeWhisperTarget = Null, !.enabled = FALSE]
       IN Send(stopWhisperLoop(s1, s1.peers), targetPeerId, WhisperMsg(FALSE))

\* ------------------------------------------------------------------ knock API

RECURSIVE toggleLoop(_, _)
toggleLoop(s, ks) ==
  IF ks = <<>> THEN s
  ELSE toggleLoop(moveKnockToPeers(Send(s, "all", KnockReply(Head(ks).peerId, TRUE)),
                                   Head(ks).peerId),
                  Tail(ks))

\* toggleKnockMode that forgets the pending knocks when knocking goes off.
toggleKnockModeDropKnocks(s) ==
  IF s.creatorId # s.myPeerId THEN s
  ELSE LET enabled == ~s.knockEnabled
           s1 == [s EXCEPT !.knockEnabled = enabled]
           s2 == IF ~enabled THEN [s1 EXCEPT !.pendingKnocks = <<>>] ELSE s1
       IN Send(s2, "all", KnockMode(enabled, s2.selfId))

\* toggleKnockMode without the creator check.
toggleKnockModeAnyone(s) ==
  LET enabled == ~s.knockEnabled
      s1 == [s EXCEPT !.knockEnabled = enabled]
      s2 == IF ~enabled /\ Len(s1.pendingKnocks) > 0
            THEN [toggleLoop(s1, s1.pendingKnocks) EXCEPT !.pendingKnocks = <<>>]
            ELSE s1
  IN Send(s2, "all", KnockMode(enabled, s2.selfId))

toggleKnockMode(s) ==
  IF s.creatorId # s.myPeerId THEN s
  ELSE LET enabled == ~s.knockEnabled
           s1 == [s EXCEPT !.knockEnabled = enabled]
           s2 == IF ~enabled /\ Len(s1.pendingKnocks) > 0
                 THEN [toggleLoop(s1, s1.pendingKnocks) EXCEPT !.pendingKnocks = <<>>]
                 ELSE s1
       IN Send(s2, "all", KnockMode(enabled, s2.selfId))

\* resolveKnock that drops the request without materializing the peer.
resolveKnockDropOnly(s, peerId, approved) ==
  removeKnock(Send(s, "all", KnockReply(peerId, approved)), peerId)

resolveKnock(s, peerId, approved) ==
  LET s1 == Send(s, "all", KnockReply(peerId, approved))
  IN removeKnock(IF approved THEN moveKnockToPeers(s1, peerId) ELSE s1, peerId)

\* ------------------------------------------------------------------ session lifecycle

\* trysteroJoin + the batch of setupRoom. A room already joined under the same
\* code is the same handle; otherwise the handle is new.
setupRoom(s, code) ==
  LET old == {h \in s.handles : h.code = code}
      ep == IF old # {} THEN (CHOOSE h \in old : TRUE).ep ELSE s.nsess + 1
      s1 == [s EXCEPT !.room = ep, !.nsess = @ + 1,
                      !.handles = @ \cup {[ep |-> ep, code |-> code]},
                      !.myPeerId = s.selfId, !.roomCode = code]
  IN IF s1.admitted
     THEN [s1 EXCEPT !.view = "room", !.peers = <<makePeer(s.selfId, s.username)>>]
     ELSE [s1 EXCEPT !.view = "knocking", !.peers = <<>>]

\* createRoom up to its await: genCode(), admitted, creatorId, initAudio() started.
createRoom(s, code) ==
  [s EXCEPT !.admitted = TRUE, !.creatorId = Null,
            !.pend = Append(@, [kind |-> "create", code |-> code])]

\* joinRoom up to its await.
joinRoom(s, code) ==
  [s EXCEPT !.admitted = FALSE, !.pend = Append(@, [kind |-> "join", code |-> code])]

\* The outcome of initAudio(): _initAudio succeeded, or the catch branch.
initAudio(s, ok) ==
  IF ok THEN [s EXCEPT !.localStream = TRUE, !.enabled = FALSE, !.audioCtx = TRUE]
  ELSE [s EXCEPT !.audioCtx = TRUE, !.noMic = TRUE]

\* The rest of createRoom / joinRoom after the await.
resume(s, ok) ==
  LET k == Head(s.pend)
      s1 == setupRoom(initAudio([s EXCEPT !.pend = Tail(@)], ok), k.code)
  IN IF k.kind = "create"
     THEN [s1 EXCEPT !.creatorId = s.selfId]
     ELSE [s1 EXCEPT !.admitTimeout = s1.nsess, !.admitTimers = Append(@, s1.nsess)]

\* The timer callback without the self-promotion.
admitTimeoutIgnored(s) == [s EXCEPT !.admitTimers = Tail(@)]

\* The callback of joinRoom's setTimeout(..., 3000).
admitTimeoutFired(s) ==
  LET s1 == [s EXCEPT !.admitTimers = Tail(@)]
  IN IF ~s1.admitted THEN admitSelf([s1 EXCEPT !.creatorId = s.selfId]) ELSE s1

\* cleanup(); destroyAudio(); clearTimeout; room.leave(); the closing batch.
leaveRoom(s) ==
  LET s1 == ClearAdmitTimeout(s)
  IN [s1 EXCEPT
        !.peerTrackState = [p \in {} |-> "real"], !.activeWhisperTarget = Null,
        !.localStream = FALSE, !.audioCtx = FALSE, !.enabled = FALSE,
        !.pendingPeerInfo = <<>>,
        !.handles = {h \in @ : h.ep # s.room},
        !.conn = [p \in Clients |-> IF s.room # 0 /\ @[p].h = s.room THEN NoConn ELSE @[p]],
        !.tx = [p \in Clients |-> IF s.room # 0 /\ s.conn[p].h = s.room THEN NoTx ELSE @[p]],
        !.room = 0,
        !.peers = <<>>, !.isTalking = FALSE, !.knockEnabled = FALSE, !.admitted = TRUE,
        !.pendingKnocks = <<>>, !.creatorId = Null]

\* The callback of the rejection's setTimeout(() => { leaveRoom(); createRoom(); }, 2000).
rejectTimeoutFired(s, code) ==
  createRoom(leaveRoom([s EXCEPT !.rejectTimers = Tail(@)]), code)

\* ------------------------------------------------------------------ ui.js

\* whisperStart that starts a whisper while push-to-talk is held.
whisperStartWhileTalking(s, peerId) ==
  IF s.whisperTarget # Null THEN s
  ELSE startWhisper([s EXCEPT !.whisperTarget = peerId], peerId)

whisperStart(s, peerId) ==
  IF s.isTalking \/ s.whisperTarget # Null THEN s
  ELSE startWhisper([s EXCEPT !.whisperTarget = peerId], peerId)

whisperStop(s) ==
  IF s.whisperTarget = Null THEN s
  ELSE stopWhisper([s EXCEPT !.whisperTarget = Null], s.whisperTarget)

\* audio.js setTalking
setTalking(s, talking) == IF s.localStream THEN [s EXCEPT !.enabled = talking] ELSE s

\* bindPTT start
pttStart(s) ==
  IF s.isTalking \/ s.whisperTarget # Null THEN s
  ELSE Send(setTalking([s EXCEPT !.isTalking = TRUE], TRUE), "all", TalkingMsg(TRUE))

\* bindPTT stop
pttStop(s) ==
  IF ~s.isTalking THEN s
  ELSE Send(setTalking([s EXCEPT !.isTalking = FALSE], FALSE), "all", TalkingMsg(FALSE))

\* keydown (Space)
keydown(s) ==
  IF s.view # "room" \/ s.noMic THEN s
  ELSE IF ~s.isTalking /\ s.whisperTarget = Null
       THEN Send(setTalking([s EXCEPT !.isTalking = TRUE], TRUE), "all", TalkingMsg(TRUE))
       ELSE s

\* keyup (Space)
keyup(s) ==
  IF s.view # "room" THEN s
  ELSE IF s.isTalking
       THEN Send(setTalking([s EXCEPT !.isTalking = FALSE], FALSE), "all", TalkingMsg(FALSE))
       ELSE s

\* ------------------------------------------------------------------ state.js

\* The fields of the store that peer.js and ui.js write.
StoreFields ==
  {"view", "username", "roomCode", "myPeerId", "peers", "isTalking", "whisperTarget",
   "noMic", "knockEnabled", "admitted", "pendingKnocks", "creatorId"}

\* Fields holding arrays. Every write to them assigns a newly built array
\* (spread, filter, map, []), which === tells apart from the old one.
Fresh(prop) == prop \in {"peers", "pendingKnocks"}

\* The store of client state s: the proxied target, the batching flag, the
\* pending changes, and the calls made to the subscribers so far. A call is
\* one round "for (const fn of subscribers) fn(prop, value, oldValue)"; seen is
\* the target the subscribers read during it.
storeOf(s) ==
  [target |-> [view |-> s.view, username |-> s.username, roomCode |-> s.roomCode,
               myPeerId |-> s.myPeerId, peers |-> s.peers, isTalking |-> s.isTalking,
               whisperTarget |-> s.whisperTarget, noMic |-> s.noMic,
               knockEnabled |-> s.knockEnabled, admitted |-> s.admitted,
               pendingKnocks |-> s.pendingKnocks, creatorId |-> s.creatorId],
   batching |-> FALSE, pendingChanges |-> <<>>, calls |-> <<>>]

notify(st, prop, value, oldValue) ==
  IF st.batching
  THEN [st EXCEPT !.pendingChanges =
          Append(@, [prop |-> prop, value |-> value, oldValue |-> oldValue])]
  ELSE [st EXCEPT !.calls =
          Append(@, [prop |-> prop, value |-> value, oldValue |-> oldValue,
                     seen |-> st.target])]

\* The set trap of the Proxy.
set(st, prop, value) ==
  LET old == st.target[prop]
  IN IF ~Fresh(prop) /\ old = value THEN st
     ELSE notify([st EXCEPT !.target[prop] = value], prop, value, old)

RECURSIVE setAll(_, _)
setAll(st, writes) ==
  IF writes = <<>> THEN st
  ELSE setAll(set(st, Head(writes).prop, Head(writes).value), Tail(writes))

\* The Map built from the changes of a batch: one entry per prop, in the order
\* of first insertion, with the first oldValue and the last value.
RECURSIVE mergeChanges(_, _)
mergeChanges(map, changes) ==
  IF changes = <<>> THEN map
  ELSE LET c == Head(changes)
           has == \E i \in 1..Len(map) : map[i].prop = c.prop
       IN mergeChanges(
            IF has
            THEN [i \in 1..Len(map) |->
                    IF map[i].prop = c.prop THEN [map[i] EXCEPT !.value = c.value] ELSE map[i]]
            ELSE Append(map, c),
            Tail(changes))

\* The Map of the earlier store: map.set(c.prop, c), the last change of a prop
\* replaces the entry.
RECURSIVE lastChanges(_, _)
lastChanges(map, changes) ==
  IF changes = <<>> THEN map
  ELSE LET c == Head(changes)
           has == \E i \in 1..Len(map) : map[i].prop = c.prop
       IN lastChanges(
            IF has
            THEN [i \in 1..Len(map) |-> IF map[i].prop = c.prop THEN c ELSE map[i]]
            ELSE Append(map, c),
            Tail(changes))

\* The subscribers are called for every entry of the map.
RECURSIVE flush(_, _)
flush(st, map) ==
  IF map = <<>> THEN st
  ELSE flush([st EXCEPT !.calls = Append(@, [prop |-> Head(map).prop,
                                            value |-> Head(map).value,
                                            oldValue |-> Head(map).oldValue,
                                            seen |-> st.target])],
             Tail(map))

\* batch(fn) of the earlier store, fn being the writes it makes.
batchLastChange(st, writes) ==
  LET s1 == setAll([st EXCEPT !.batching = TRUE], writes)
      changes == s1.pendingChanges
  IN flush([s1 EXCEPT !.batching = FALSE, !.pendingChanges = <<>>],
           lastChanges(<<>>, changes))

\* A batch that does not hold the notifications back.
batchUnheld(st, writes) == setAll(st, writes)

\* batch(fn), fn being the writes it makes.
batch(st, writes) ==
  LET s1 == setAll([st EXCEPT !.batching = TRUE], writes)
      changes == s1.pendingChanges
  IN flush([s1 EXCEPT !.batching = FALSE, !.pendingChanges = <<>>],
           mergeChanges(<<>>, changes))

\* ------------------------------------------------------------------ store writes of peer.js

\* state.prop = value
W(prop, value) == [prop |-> prop, value |-> value]

\* A run of store writes outside batch(), and one inside a batch(() => ...).
Plain(writes) == [batched |-> FALSE, writes |-> writes]
Batched(writes) == [batched |-> TRUE, writes |-> writes]

\* The store after the writes of a handler, in program order.
RECURSIVE commit(_, _)
commit(st, ops) ==
  IF ops = <<>> THEN st
  ELSE commit(IF Head(ops).batched THEN batch(st, Head(ops).writes)
              ELSE setAll(st, Head(ops).writes),
              Tail(ops))

\* moveKnockToPeers: one write of state.peers, unless the peer is there already.
moveKnockToPeersWrites(s, peerId) ==
  IF HasId(s.peers, peerId) THEN <<>>
  ELSE <<W("peers", moveKnockToPeers(s, peerId).peers)>>

\* removeKnock: state.pendingKnocks = state.pendingKnocks.filter(...)
removeKnockWrites(s, peerId) == <<W("pendingKnocks", Without(s.pendingKnocks, peerId))>>

\* for (const k of state.pendingKnocks) moveKnockToPeers(k.peerId)
RECURSIVE MoveKnocksWrites(_, _)
MoveKnocksWrites(s, ks) ==
  IF ks = <<>> THEN <<>>
  ELSE moveKnockToPeersWrites(s, Head(ks).peerId)
       \o MoveKnocksWrites(moveKnockToPeers(s, Head(ks).peerId), Tail(ks))

\* admitSelf: the batch of lines 248-257.
admitSelfWrites(s) ==
  IF s.admitted THEN <<>>
  ELSE <<Batched(<<W("admitted", TRUE), W("view", "room"), W("peers", admitSelf(s).peers)>>)>>

\* getKnock, msg.type === 'mode': the batch of lines 154-163.
getKnockModeWrites(s, msg) ==
  <<Batched(<<W("knockEnabled", msg.flag), W("creatorId", msg.id)>>
            \o (IF ~msg.flag /\ Len(s.pendingKnocks) > 0
                THEN MoveKnocksWrites(s, s.pendingKnocks) \o <<W("pendingKnocks", <<>>)>>
                ELSE <<>>))>>

\* getKnock, a reply about another peer: lines 172-175, outside any batch.
getKnockReplyWrites(s, msg) ==
  IF msg.id # s.selfId /\ s.admitted
  THEN <<Plain((IF msg.flag THEN moveKnockToPeersWrites(s, msg.id) ELSE <<>>)
               \o removeKnockWrites(s, msg.id))>>
  ELSE <<>>

\* resolveKnock: lines 354-355, outside any batch.
resolveKnockWrites(s, peerId, approved) ==
  <<Plain((IF approved THEN moveKnockToPeersWrites(s, peerId) ELSE <<>>)
          \o removeKnockWrites(s, peerId))>>

\* room.onPeerLeave: two plain writes, then the batch of the creator check.
onPeerLeaveWrites(s, peerId) ==
  <<Plain(<<W("peers", Without(s.peers, peerId))>> \o removeKnockWrites(s, peerId))>>
  \o (IF peerId = s.creatorId
      THEN <<Batched(<<W("knockEnabled", FALSE), W("creatorId", Null)>>)>>
      ELSE <<>>)

\* leaveRoom: the batch of lines 408-415.
leaveRoomWrites(s) ==
  <<Batched(<<W("peers", <<>>), W("isTalking", FALSE), W("knockEnabled", FALSE),
              W("admitted", TRUE), W("pendingKnocks", <<>>), W("creatorId", Null)>>)>>

\* ------------------------------------------------------------------ transport

Pairs == {pr \in Clients \X Clients : pr[1] # pr[2]}

\* Is the room handle ep of client c still joined?
Alive(c, ep) == \E h \in cl[c].handles : h.ep = ep

\* The messages of s.out that reach b, tagged with the two handles of the link.
\* getKnock has no branch for 'required': its delivery changes nothing, and it
\* is not queued.
RECURSIVE Outbox(_, _, _)
Outbox(s, out, b) ==
  IF out = <<>> THEN <<>>
  ELSE LET o == Head(out)
           hit == /\ (o.to = "all" \/ o.to = b) /\ Linked(s, b) /\ Alive(b, s.conn[b].ph)
                  /\ o.msg # KnockRequired
       IN (IF hit THEN <<[sep |-> s.room, rep |-> s.conn[b].ph, msg |-> o.msg]>> ELSE <<>>)
          \o Outbox(s, Tail(out), b)

\* Client c as a handler finds it; out collects what this handler sends.
In(c) == [cl[c] EXCEPT !.out = <<>>]

\* Client c ends a handler in state s: its sends join the queues n. A run that
\* watches the wire keeps in out what the last handler sent.
Commit(c, s, n) ==
  /\ cl' = [cl EXCEPT ![c] = IF budget.wire THEN s ELSE [s EXCEPT !.out = <<>>]]
  /\ net' = [pr \in Pairs |-> IF pr[1] = c THEN n[pr] \o Outbox(s, s.out, pr[2]) ELSE n[pr]]
  /\ \A pr \in Pairs : Len(net'[pr]) <= MaxQueue
  /\ Len(s.rejectTimers) <= MaxTimers

\* room.leave() of handle ep at c: what was in flight to that handle is lost.
Closed(c, ep) ==
  [pr \in Pairs |-> IF pr[2] = c THEN SelectSeq(net[pr], LAMBDA m : m.rep # ep) ELSE net[pr]]

\* Client c starts a session (createRoom / joinRoom is called) and ends in s.
Start(c, s, n) ==
  budget.sessions > 0 /\ budget' = [budget EXCEPT !.sessions = @ - 1] /\ Commit(c, s, n)

\* Client c ends a knock-mode toggle in s.
Toggle(c, s, n) ==
  budget.toggles > 0 /\ budget' = [budget EXCEPT !.toggles = @ - 1] /\ Commit(c, s, n)

\* Client c ends any other handler in s.
Step(c, s, n) == UNCHANGED budget /\ Commit(c, s, n)

\* The transport connects a to b: room.onPeerJoin(b) at a.
PeerJoin(a, b) ==
  /\ a # b
  /\ cl[a].conn[b] = NoConn
  /\ \E ha \in cl[a].handles, hb \in cl[b].handles :
       /\ ha.code = hb.code
       /\ cl[b].conn[a] \in {NoConn, [h |-> hb.ep, ph |-> ha.ep]}
       /\ Step(a, onPeerJoin([In(a) EXCEPT !.conn[b] = [h |-> ha.ep, ph |-> hb.ep]], b), net)

\* The transport reports b gone: room.onPeerLeave(b) at a.
PeerLeave(a, b) ==
  /\ a # b
  /\ cl[a].conn[b] # NoConn
  /\ ~Alive(b, cl[a].conn[b].ph)
  /\ Step(a, [onPeerLeave(In(a), b) EXCEPT !.conn[b] = NoConn, !.tx[b] = NoTx],
            [net EXCEPT ![<<b, a>>] = SelectSeq(@, LAMBDA m : m.sep # cl[a].conn[b].ph)])

\* The next message from a is delivered to b's receive handler.
Deliver(a, b) ==
  /\ a # b
  /\ net[<<a, b>>] # <<>>
  /\ LET m == Head(net[<<a, b>>])
     IN /\ cl[b].conn[a].h # 0
        /\ m.sep = cl[b].conn[a].ph
        /\ m.rep = cl[b].conn[a].h
        /\ Step(b, Receive(In(b), m.msg, a), [net EXCEPT ![<<a, b>>] = Tail(@)])

\* ------------------------------------------------------------------ app.js, timers

\* The clients are interchangeable: their pages load in the order A, B, C.
Before(d, c) == (d = "A" /\ c # "A") \/ (d = "B" /\ c = "C")

\* boot(): no room in the hash.
BootCreate(c) ==
  /\ ~cl[c].booted /\ \A d \in Clients : Before(d, c) => cl[d].booted
  /\ \E code \in Codes : Start(c, createRoom([In(c) EXCEPT !.booted = TRUE], code), net)

\* boot(): a room in the hash.
BootJoin(c) ==
  /\ ~cl[c].booted /\ \A d \in Clients : Before(d, c) => cl[d].booted
  /\ \E code \in Codes : Start(c, joinRoom([In(c) EXCEPT !.booted = TRUE], code), net)

\* initAudio() resolves and createRoom / joinRoom runs on.
Resume(c) ==
  /\ cl[c].pend # <<>>
  /\ Step(c, resume(In(c), TRUE), net)

\* initAudio() rejects (no microphone) and createRoom / joinRoom runs on.
ResumeNoMic(c) ==
  /\ cl[c].pend # <<>>
  /\ Step(c, resume(In(c), FALSE), net)

\* handleHashChange
HashChange(c) ==
  /\ cl[c].booted
  /\ \E code \in Codes :
       /\ code # cl[c].roomCode
       /\ Start(c, joinRoom(leaveRoom(In(c)), code), Closed(c, cl[c].room))

\* transitionToNewRoom (#btn-leave)
NewRoom(c) ==
  /\ cl[c].view = "room"
  /\ \E code \in Codes : Start(c, createRoom(leaveRoom(In(c)), code), Closed(c, cl[c].room))

\* #btn-knock-leave
KnockLeave(c) ==
  /\ cl[c].view = "knocking"
  /\ Step(c, leaveRoom(In(c)), Closed(c, cl[c].room))

AdmitTimeout(c) ==
  /\ cl[c].admitTimers # <<>>
  /\ Step(c, admitTimeoutFired(In(c)), net)

RejectTimeout(c) ==
  /\ cl[c].rejectTimers # <<>>
  /\ \E code \in Codes : Start(c, rejectTimeoutFired(In(c), code), Closed(c, cl[c].room))

\* ------------------------------------------------------------------ user input

ToggleKnock(c) ==
  /\ cl[c].view = "room"
  /\ Toggle(c, toggleKnockMode(In(c)), net)

\* "Let in" / "Deny" of a knock notification
ResolveKnock(c) ==
  /\ cl[c].view = "room"
  /\ \E p \in Ids(cl[c].pendingKnocks), approved \in BOOLEAN :
       Step(c, resolveKnock(In(c), p, approved), net)

\* pointerdown on a peer icon
WhisperStart(c) ==
  /\ cl[c].view = "room"
  /\ ~cl[c].noMic
  /\ \E p \in Ids(cl[c].peers) \ {cl[c].myPeerId} : Step(c, whisperStart(In(c), p), net)

\* pointerup / pointercancel on a peer icon
WhisperStop(c) ==
  /\ cl[c].view = "room"
  /\ Ids(cl[c].peers) \ {cl[c].myPeerId} # {}
  /\ Step(c, whisperStop(In(c)), net)

\* pointerdown on the own mouth
PttStart(c) ==
  /\ cl[c].view = "room"
  /\ ~cl[c].noMic
  /\ cl[c].myPeerId \in Ids(cl[c].peers)
  /\ Step(c, pttStart(In(c)), net)

PttStop(c) ==
  /\ cl[c].view = "room"
  /\ ~cl[c].noMic
  /\ cl[c].myPeerId \in Ids(cl[c].peers)
  /\ Step(c, pttStop(In(c)), net)

KeyDown(c) == Step(c, keydown(In(c)), net)

KeyUp(c) == Step(c, keyup(In(c)), net)

\* ------------------------------------------------------------------ one client and its peers

\* The client whose handlers are checked against every sequence of events.
Local == "A"

\* Its peers: whatever they do reaches Local as peer-join, peer-leave and messages.
Remote == Clients \ {Local}

\* What a peer can send on the knock channel ('required' has no effect).
KnockMsgs(p) ==
  {KnockAdmitted}
    \cup {KnockMode(enabled, creatorId) : enabled \in BOOLEAN, creatorId \in Clients}
    \cup {KnockReply(targetPeerId, approved) :
            targetPeerId \in Clients \ {p}, approved \in BOOLEAN}

\* room.onPeerJoin(p) at Local, through any room handle it still holds.
EnvJoin(p) ==
  /\ cl[Local].conn[p] = NoConn
  /\ \E h \in cl[Local].handles :
       Step(Local, onPeerJoin([In(Local) EXCEPT !.conn[p] = [h |-> h.ep, ph |-> 1]], p), net)

\* room.onPeerLeave(p) at Local.
EnvLeave(p) ==
  /\ cl[Local].conn[p] # NoConn
  /\ Step(Local, [onPeerLeave(In(Local), p) EXCEPT !.conn[p] = NoConn, !.tx[p] = NoTx], net)

\* A knock message of a connected peer p reaches getKnock at Local.
EnvKnock(p) ==
  /\ cl[Local].conn[p] # NoConn
  /\ \E m \in KnockMsgs(p) : Step(Local, Receive(In(Local), m, p), net)

\* The username message of a connected peer p reaches getUsername at Local.
EnvUsername(p) ==
  /\ cl[Local].conn[p] # NoConn
  /\ Step(Local, Receive(In(Local), UsernameMsg(UserName(p)), p), net)

\* ------------------------------------------------------------------ specifications

Init ==
  /\ cl = [c \in Clients |-> initial(c)]
  /\ net = [pr \in Pairs |-> <<>>]
  /\ budget = [sessions |-> MaxSessions, toggles |-> MaxToggles, wire |-> FALSE]

\* Admission: client Local against every sequence of peer-join, peer-leave and
\* knock events of its peers, its timers and its user's room and knock commands.
Next ==
  \/ BootCreate(Local)
  \/ BootJoin(Local)
  \/ Resume(Local)
  \/ HashChange(Local)
  \/ NewRoom(Local)
  \/ KnockLeave(Local)
  \/ AdmitTimeout(Local)
  \/ RejectTimeout(Local)
  \/ \E p \in Remote : EnvJoin(p)
  \/ \E p \in Remote : EnvLeave(p)
  \/ \E p \in Remote : EnvKnock(p)
  \/ ToggleKnock(Local)
  \/ ResolveKnock(Local)

Spec == Init /\ [][Next]_vars

\* Audio routing: the same client with a microphone that may be missing, its
\* push-to-talk, keyboard and whisper input.
NextAudio ==
  \/ BootCreate(Local)
  \/ BootJoin(Local)
  \/ Resume(Local)
  \/ ResumeNoMic(Local)
  \/ NewRoom(Local)
  \/ KnockLeave(Local)
  \/ AdmitTimeout(Local)
  \/ \E p \in Remote : EnvJoin(p)
  \/ \E p \in Remote : EnvLeave(p)
  \/ \E p \in Remote : EnvKnock(p)
  \/ ToggleKnock(Local)
  \/ ResolveKnock(Local)
  \/ WhisperStart(Local)
  \/ WhisperStop(Local)
  \/ PttStart(Local)
  \/ PttStop(Local)
  \/ KeyDown(Local)
  \/ KeyUp(Local)

SpecAudio == Init /\ [][NextAudio]_vars

\* One room session of the same client, with the username messages of its peers
\* and with what each handler sends kept for inspection.
InitWire ==
  /\ cl = [c \in Clients |-> initial(c)]
  /\ net = [pr \in Pairs |-> <<>>]
  /\ budget = [sessions |-> WireSessions, toggles |-> MaxToggles, wire |-> TRUE]

NextWire ==
  \/ BootCreate(Local)
  \/ BootJoin(Local)
  \/ Resume(Local)
  \/ KnockLeave(Local)
  \/ AdmitTimeout(Local)
  \/ \E p \in Remote : EnvJoin(p)
  \/ \E p \in Remote : EnvLeave(p)
  \/ \E p \in Remote : EnvKnock(p)
  \/ \E p \in Remote : EnvUsername(p)
  \/ ToggleKnock(Local)
  \/ ResolveKnock(Local)

SpecWire == InitWire /\ [][NextWire]_vars

\* The same with the event loop running every armed admit timer: a callback
\* handed to setTimeout(..., 3000) runs unless clearTimeout removes it.
SpecTimer == InitWire /\ [][NextWire]_vars /\ WF_vars(AdmitTimeout(Local))

\* Two clients together: both run the code, and the transport carries the
\* peer-join and peer-leave events and the messages between them.
Mesh == {"A", "B"}

InitMesh ==
  /\ cl = [c \in Clients |-> initial(c)]
  /\ net = [pr \in Pairs |-> <<>>]
  /\ budget = [sessions |-> MeshSessions, toggles |-> MaxToggles, wire |-> FALSE]

NextMesh ==
  \/ \E c \in Mesh : BootCreate(c)
  \/ \E c \in Mesh : BootJoin(c)
  \/ \E c \in Mesh : Resume(c)
  \/ \E c \in Mesh : HashChange(c)
  \/ \E c \in Mesh : NewRoom(c)
  \/ \E c \in Mesh : KnockLeave(c)
  \/ \E c \in Mesh : AdmitTimeout(c)
  \/ \E c \in Mesh : RejectTimeout(c)
  \/ \E a, b \in Mesh : PeerJoin(a, b)
  \/ \E a, b \in Mesh : PeerLeave(a, b)
  \/ \E a, b \in Mesh : Deliver(a, b)
  \/ \E c \in Mesh : ToggleKnock(c)
  \/ \E c \in Mesh : ResolveKnock(c)

SpecMesh == InitMesh /\ [][NextMesh]_vars

\* Three clients in one room: A creates it, B and C join it by its code, and
\* nobody leaves. What each handler sends is kept for inspection.
InitTrio ==
  /\ cl = [c \in Clients |-> initial(c)]
  /\ net = [pr \in Pairs |-> <<>>]
  /\ budget = [sessions |-> TrioSessions, toggles |-> TrioToggles, wire |-> TRUE]

\* The code of the room the three share.
TrioCode == "AAAA"

TrioCreate ==
  /\ BootCreate("A")
  /\ Head(cl'["A"].pend).code = TrioCode

TrioJoin(c) ==
  /\ BootJoin(c)
  /\ Head(cl'[c].pend).code = TrioCode

NextTrio ==
  \/ TrioCreate
  \/ \E c \in {"B", "C"} : TrioJoin(c)
  \/ \E c \in Clients : Resume(c)
  \/ \E a, b \in Clients : PeerJoin(a, b)
  \/ \E a, b \in Clients : Deliver(a, b)
  \/ \E c \in Clients : ToggleKnock(c)
  \/ \E c \in Clients : ResolveKnock(c)

SpecTrio == InitTrio /\ [][NextTrio]_vars

\* ------------------------------------------------------------------ claims

\* The remote peers of the roster of s, and those the routing policy holds Real.
RemotePeers(s) == Ids(s.peers) \ {s.selfId}

RealPeers(s) == {p \in RemotePeers(s) : TrackOf(s, p) = "real"}

\* C1: while whisperTarget is set, exactly one remote peer of the roster is Real
\* and it is whisperTarget; while it is null, every peer of the roster is Real.
C1_RoutingInvariant ==
  LET s == cl[Local]
  IN /\ s.whisperTarget # Null => RealPeers(s) = {s.whisperTarget}
     /\ s.whisperTarget = Null => RealPeers(s) = RemotePeers(s)

\* C2: push-to-talk and whisper are mutually exclusive: while whisperTarget is
\* set, isTalking is false.
C2_PttWhisperExclusive ==
  cl[Local].whisperTarget # Null => ~cl[Local].isTalking

\* A whisper is being routed to its target in the room view, with the
\* microphone track enabled by startWhisper.
C2_Witness ==
  LET s == cl[Local]
  IN /\ s.whisperTarget # Null /\ s.activeWhisperTarget = s.whisperTarget
     /\ s.view = "room" /\ s.enabled /\ ~s.isTalking

\* The peers that joined the current room of s and have not since left.
JoinedPeers(s) == {p \in Clients \ {s.selfId} : Linked(s, p)}

\* C3: after any sequence of peer-join and peer-leave events, whatever the order
\* of the username and knock messages between them, the roster of an admitted
\* client holds exactly the peers that joined and have not since left; a peer
\* that joined under knock mode may still wait in pendingKnocks.
C3_RosterIsJoinedPeers ==
  LET s == cl[Local]
  IN (s.room # 0 /\ s.admitted) =>
       /\ RemotePeers(s) \subseteq JoinedPeers(s)
       /\ JoinedPeers(s) \subseteq RemotePeers(s) \cup Ids(s.pendingKnocks)

\* The last message queued from a to b, if this step queued one.
Queued(a, b, m) ==
  /\ Len(net'[<<a, b>>]) = Len(net[<<a, b>>]) + 1
  /\ net'[<<a, b>>][Len(net'[<<a, b>>])].msg = m

\* Client a, in knock mode, approves the pending knock of b: resolveKnock(b, true).
Approves(a, b) ==
  /\ cl[a].knockEnabled /\ cl'[a].knockEnabled
  /\ HasId(cl[a].pendingKnocks, b)
  /\ Queued(a, b, KnockReply(b, TRUE))

\* The reply approving b reaches b's getKnock.
ApprovalArrives(a, b) ==
  /\ net[<<a, b>>] # <<>>
  /\ Head(net[<<a, b>>]).msg = KnockReply(b, TRUE)
  /\ net'[<<a, b>>] = Tail(net[<<a, b>>])
  /\ cl'[b].room = cl[b].room /\ cl[b].room # 0
  /\ cl'[b].conn[a] = cl[b].conn[a] /\ cl[b].conn[a] # NoConn

\* C4: knock round trip. When A, in knock mode, holds B in pendingKnocks and
\* calls resolveKnock(B, true), B is in A's roster and no longer in A's
\* pendingKnocks; when that reply reaches B, B is admitted with itself in its
\* roster, and a B that was still knocking is in the room view.
C4_KnockRoundTrip ==
  [][\A a, b \in Mesh :
       a # b =>
       /\ Approves(a, b) =>
            HasId(cl'[a].peers, b) /\ ~HasId(cl'[a].pendingKnocks, b)
       /\ ApprovalArrives(a, b) =>
            /\ cl'[b].admitted /\ HasId(cl'[b].peers, b)
            /\ ~cl[b].admitted => cl'[b].view = "room"]_vars

\* A created the room and holds knock mode on; B joined it and still knocks; A
\* has let B in (B is in A's roster, not pending) and A's approving reply is the
\* next message B receives.
C4_Witness ==
  LET A == cl["A"]
      B == cl["B"]
  IN /\ A.creatorId = "A" /\ A.knockEnabled /\ A.view = "room"
     /\ HasId(A.peers, "B") /\ ~HasId(A.pendingKnocks, "B")
     /\ Linked(A, "B") /\ Linked(B, "A") /\ B.roomCode = A.roomCode
     /\ ~B.admitted /\ B.view = "knocking"
     /\ net[<<"A", "B">>] # <<>> /\ Head(net[<<"A", "B">>]).msg = KnockReply("B", TRUE)

\* The reply denying b reaches b's getKnock.
DenialArrives(a, b) ==
  /\ net[<<a, b>>] # <<>>
  /\ Head(net[<<a, b>>]).msg = KnockReply(b, FALSE)
  /\ net'[<<a, b>>] = Tail(net[<<a, b>>])
  /\ cl'[b].room = cl[b].room /\ cl[b].room # 0
  /\ cl'[b].conn[a] = cl[b].conn[a] /\ cl[b].conn[a] # NoConn

\* The cooldown timer of the rejection in the current room of c fires.
CooldownEnds(c) ==
  /\ cl[c].rejectTimers # <<>>
  /\ cl'[c].rejectTimers = Tail(cl[c].rejectTimers)
  /\ Head(cl[c].rejectTimers) = cl[c].room
  /\ cl[c].view = "rejected"

\* C5: denial. When the reply denying B reaches B, B is Rejected and the
\* cooldown is armed; when the cooldown ends, B has left the room and has a
\* createRoom under way whose code differs from the code of the rejecting room.
C5_DenialNewRoom ==
  [][\A a, b \in Mesh :
       a # b =>
       /\ DenialArrives(a, b) =>
            /\ cl'[b].view = "rejected"
            /\ Len(cl'[b].rejectTimers) = Len(cl[b].rejectTimers) + 1
       /\ CooldownEnds(b) =>
            /\ cl'[b].room = 0 /\ cl'[b].pend # <<>>
            /\ cl'[b].pend[Len(cl'[b].pend)].kind = "create"
            /\ cl'[b].pend[Len(cl'[b].pend)].code # cl[b].roomCode]_vars

\* C6: Rejected is terminal for the room. While the client stays in the room
\* that rejected it, no event (an 'admitted' signal, an approving reply, the
\* self-promotion timer) makes it Admitted.
C6_RejectedIsTerminal ==
  [][LET s == cl[Local]
         t == cl'[Local]
     IN (s.view = "rejected" /\ ~s.admitted /\ s.room # 0 /\ t.room = s.room) =>
          (~t.admitted /\ t.view = "rejected")]_vars

\* What the last handler of s sent to every connected peer.
Broadcast(s) == {s.out[i].msg : i \in {j \in 1..Len(s.out) : s.out[j].to = "all"}}

\* The creator, holding pending knocks, turns knock mode off.
TurnsKnockingOff ==
  /\ cl[Local].creatorId = cl[Local].myPeerId
  /\ cl[Local].knockEnabled
  /\ cl[Local].pendingKnocks # <<>>
  /\ budget'.toggles < budget.toggles

\* C7: mode-off auto-promotion. When the creator holds pending knocks and calls
\* toggleKnockMode to turn knocking off, every pending peer is in its roster
\* afterwards, an approving reply for each was sent, the mode change was
\* sent, and pendingKnocks is empty.
C7_ModeOffPromotesAll ==
  [][TurnsKnockingOff =>
       /\ ~cl'[Local].knockEnabled
       /\ cl'[Local].pendingKnocks = <<>>
       /\ \A p \in Ids(cl[Local].pendingKnocks) :
            /\ HasId(cl'[Local].peers, p)
            /\ KnockReply(p, TRUE) \in Broadcast(cl'[Local])
       /\ KnockMode(FALSE, Local) \in Broadcast(cl'[Local])]_vars

\* The creator has just turned knocking off with B and C pending: both are in
\* its roster and the approving replies for both are what it sent.
C7_Witness ==
  LET s == cl[Local]
  IN /\ s.creatorId = Local /\ ~s.knockEnabled /\ s.pendingKnocks = <<>>
     /\ {KnockReply("B", TRUE), KnockReply("C", TRUE), KnockMode(FALSE, Local)}
          \subseteq Broadcast(s)
     /\ HasId(s.peers, "B") /\ HasId(s.peers, "C")
     /\ Linked(s, "B") /\ Linked(s, "C")

\* Client Local knocks: it joined a room and is not admitted.
Knocking == cl[Local].room # 0 /\ ~cl[Local].admitted

\* The admit timer of a client that is not admitted goes away while the client
\* stays in its room: the timer fired, or an admitting signal cancelled it.
TimerEndsUnadmitted ==
  /\ cl[Local].admitTimers # <<>>
  /\ cl'[Local].admitTimers = Tail(cl[Local].admitTimers)
  /\ cl'[Local].room = cl[Local].room
  /\ ~cl[Local].admitted

\* No peer is connected, so no signal can reach the client.
Alone == \A p \in Clients : cl[Local].conn[p] = NoConn

StaleTimerPromotes ==
  /\ cl[Local].admitTimers # <<>>
  /\ \A i \in 1..Len(cl'[Local].admitTimers) :
       cl'[Local].admitTimers[i] # Head(cl[Local].admitTimers)
  /\ Head(cl[Local].admitTimers) # cl[Local].admitTimeout
  /\ ~cl[Local].admitted /\ cl'[Local].admitted

\* C9: the self-promotion timer is cancelled when an admitting signal is
\* processed and cleared by leaveRoom, so a timer armed by one joinRoom never
\* fires to promote the client once it was admitted, once it left, or in a
\* session it joined later.
C9_NoStaleSelfPromotion == [][~StaleTimerPromotes]_vars

\* The signals that admit client c: 'admitted', and a reply approving c.
AdmittingSignals(c) == {KnockAdmitted, KnockReply(c, TRUE)}

\* C10: admission is idempotent. An admitting signal delivered to a client that
\* is already admitted changes nothing: no store field, no roster, no module
\* variable or timer, and no addStream is issued on any connection.
C10_AdmissionIdempotent ==
  cl[Local].admitted =>
    \A p \in Remote, m \in AdmittingSignals(Local) :
      Receive(In(Local), m, p) = In(Local)

\* The client was let into a room by a signal of a member: it is admitted under
\* no creator of its own, B is connected, in its roster and has its stream.
C10_Witness ==
  LET s == cl[Local]
  IN /\ s.admitted /\ s.view = "room" /\ s.creatorId = Null
     /\ Linked(s, "B") /\ HasId(s.peers, "B") /\ HasId(s.peers, Local)
     /\ s.localStream /\ s.tx["B"] = [track |-> "real", adds |-> 1]
     /\ s.admitTimeout = 0 /\ s.admitTimers = <<>>

\* C11: delivering the same reply(targetPeerId = P, approved = true) twice to an
\* admitted member yields the same roster and the same pendingKnocks as
\* delivering it once.
C11_ReplyIdempotent ==
  cl[Local].admitted =>
    \A p \in Remote, P \in Clients \ {Local} :
      LET once == Receive(In(Local), KnockReply(P, TRUE), p)
          twice == Receive(once, KnockReply(P, TRUE), p)
      IN twice.peers = once.peers /\ twice.pendingKnocks = once.pendingKnocks

\* An admitted member in knock mode holds the knock of C, not yet in its
\* roster, and B is connected to relay the approving reply about C.
C11_Witness ==
  LET s == cl[Local]
  IN /\ s.admitted /\ s.view = "room" /\ s.knockEnabled
     /\ Linked(s, "B") /\ HasId(s.peers, "B")
     /\ HasId(s.pendingKnocks, "C") /\ ~HasId(s.peers, "C")
     /\ HasId(Receive(In(Local), KnockReply("C", TRUE), "B").peers, "C")

\* The last handler of a was resolveKnock(K, approved): the reply is all it sent.
Resolved(a, K, approved) ==
  cl[a].out = <<[to |-> "all", msg |-> KnockReply(K, approved)]>>

\* m is an admitted member connected with a, and the reply of a about K is no
\* longer on its way to m.
ReplyReached(a, m, K, approved) ==
  /\ cl[m].admitted /\ cl[m].room # 0
  /\ Linked(cl[a], m) /\ Linked(cl[m], a)
  /\ \A i \in 1..Len(net[<<a, m>>]) : net[<<a, m>>][i].msg # KnockReply(K, approved)

\* C12: once the resolveKnock decision of a member about peer K has reached
\* every admitted member, they agree on K: K is in the roster of each when it
\* was approved and of none when it was denied, and none holds a KnockRequest
\* for K.
C12_MembersAgree ==
  \A a \in Clients, K \in Clients, approved \in BOOLEAN :
    (/\ a # K
     /\ Resolved(a, K, approved)
     /\ \A m \in Clients \ {a, K} : cl[m].admitted => ReplyReached(a, m, K, approved))
    => \A m \in Clients \ {K} :
         (cl[m].admitted /\ cl[m].room # 0) =>
           /\ HasId(cl[m].peers, K) = approved
           /\ ~HasId(cl[m].pendingKnocks, K)

\* C13: leaveRoom called from any state leaves peers, pendingKnocks and
\* pendingPeerInfo empty, the routing map empty with no active whisper target,
\* no admission timer armed, and every Self field at its pre-join default
\* (admitted, knockEnabled, creatorId, isTalking, whisperTarget).
C13_LeaveResets ==
  LET t == leaveRoom(In(Local))
  IN /\ t.peers = <<>> /\ t.pendingKnocks = <<>> /\ t.pendingPeerInfo = <<>>
     /\ DOMAIN t.peerTrackState = {} /\ t.activeWhisperTarget = Null
     /\ t.admitTimeout = 0 /\ t.admitTimers = <<>>
     /\ t.admitted = initial(Local).admitted
     /\ t.knockEnabled = initial(Local).knockEnabled
     /\ t.creatorId = initial(Local).creatorId
     /\ t.isTalking = initial(Local).isTalking
     /\ t.whisperTarget = initial(Local).whisperTarget

\* The state in which room.onPeerJoin(p) runs at Local for a peer p that
\* connects through the current room.
Joining(p) == [In(Local) EXCEPT !.conn[p] = [h |-> cl[Local].room, ph |-> 1]]

WhisperActive == cl[Local].room # 0 /\ cl[Local].activeWhisperTarget # Null

\* C14: a peer that joins an admitted client while a whisper is active is put
\* directly into routing state Silent and is not given the real track, with
\* knockEnabled on or off.
C14_JoinMidWhisperSilent ==
  (WhisperActive /\ cl[Local].admitted) =>
    \A p \in Remote :
      (cl[Local].conn[p] = NoConn /\ p # cl[Local].activeWhisperTarget) =>
        LET t == onPeerJoin(Joining(p), p)
        IN TrackOf(t, p) = "silent" /\ t.tx[p].track # "real"

\* The same for a client whose knock mode is off.
C14_OpenJoinSilent ==
  (WhisperActive /\ cl[Local].admitted /\ ~cl[Local].knockEnabled) =>
    \A p \in Remote :
      (cl[Local].conn[p] = NoConn /\ p # cl[Local].activeWhisperTarget) =>
        LET t == onPeerJoin(Joining(p), p)
        IN TrackOf(t, p) = "silent" /\ t.tx[p].track # "real"

\* The remote connections of the current room that carry the real track.
CarriesReal == {p \in Remote : Linked(cl[Local], p) /\ cl[Local].tx[p].track = "real"}

\* C15: while a whisper is active no connection other than the one to the
\* whisper target carries the real microphone track; lobby-preview
\* connections and peers approved during the whisper carry the silent track.
C15_WhisperOnlyToTarget ==
  WhisperActive => CarriesReal \subseteq {cl[Local].activeWhisperTarget}

\* The mode messages among what a handler sent.
ModeMsgs(s) == SelectSeq(s.out, LAMBDA o : o.msg.ch = "knock" /\ o.msg.type = "mode")

\* C16: toggleKnockMode is creator-only. Called by a client that is not the
\* room's creator it changes nothing and sends nothing; called by the creator
\* it flips knockEnabled and broadcasts exactly one mode message, which
\* carries the new value and the creator's id.
C16_ToggleCreatorOnly ==
  cl[Local].room # 0 =>
    LET s == In(Local)
        t == toggleKnockMode(s)
    IN IF s.creatorId # s.myPeerId
       THEN t = s
       ELSE /\ t.knockEnabled = ~s.knockEnabled
            /\ ModeMsgs(t) = <<[to |-> "all", msg |-> KnockMode(t.knockEnabled, s.creatorId)]>>

\* A member that is not the creator sits in a room with knocking on, where a
\* toggle would be visible.
C16_Witness ==
  /\ cl[Local].view = "room" /\ cl[Local].room # 0 /\ cl[Local].admitted
  /\ cl[Local].creatorId \in Remote
  /\ cl[Local].knockEnabled
  /\ toggleKnockMode(In(Local)) = In(Local)

\* The creator toggles knocking off with a request pending.
C16_CreatorWitness ==
  /\ cl[Local].room # 0 /\ cl[Local].creatorId = cl[Local].myPeerId
  /\ cl[Local].knockEnabled /\ cl[Local].pendingKnocks # <<>>
  /\ Len(toggleKnockMode(In(Local)).out) > 1

\* The entries of a list other than P's are the same, in the same order.
OthersKept(before, after, P) ==
  /\ ~HasId(after, P)
  /\ after = SelectSeq(before, LAMBDA e : e.peerId # P)

\* C17: after room.onPeerLeave(P), in any local state, P is in none of peers,
\* pendingKnocks, pendingPeerInfo and the routing map, and no other peer's
\* entry has changed; knockEnabled becomes false and creatorId null if P was
\* the creator, and both are unchanged otherwise.
C17_PeerLeaveFrame ==
  \A P \in Remote :
    LET s == In(Local)
        t == onPeerLeave(s, P)
    IN /\ OthersKept(s.peers, t.peers, P)
       /\ OthersKept(s.pendingKnocks, t.pendingKnocks, P)
       /\ OthersKept(s.pendingPeerInfo, t.pendingPeerInfo, P)
       /\ DOMAIN t.peerTrackState = DOMAIN s.peerTrackState \ {P}
       /\ \A q \in DOMAIN t.peerTrackState : t.peerTrackState[q] = s.peerTrackState[q]
       /\ IF P = s.creatorId
          THEN ~t.knockEnabled /\ t.creatorId = Null
          ELSE t.knockEnabled = s.knockEnabled /\ t.creatorId = s.creatorId

\* The creator of a knock-mode room is connected and in the roster of Local,
\* next to another peer whose routing entry must survive the creator's leave.
C17_Witness ==
  \E P \in Remote, q \in Remote :
    /\ q # P
    /\ cl[Local].conn[P] # NoConn
    /\ cl[Local].creatorId = P /\ cl[Local].knockEnabled
    /\ HasId(cl[Local].peers, P) /\ HasId(cl[Local].peers, q)
    /\ q \in DOMAIN cl[Local].peerTrackState
    /\ ~onPeerLeave(In(Local), P).knockEnabled

\* No handler that starts and ends with the client not admitted issues addStream.
NoStreamWhileKnocking ==
  (~cl[Local].admitted /\ ~cl'[Local].admitted) =>
    \A p \in Clients : cl'[Local].tx[p].adds <= cl[Local].tx[p].adds

\* room.onPeerJoin(p) at a client that is not admitted records p in
\* pendingPeerInfo, sends the username to p, and does nothing else.
JoinOnlyRecords ==
  (~cl[Local].admitted /\ cl[Local].room # 0) =>
    \A p \in Remote :
      cl[Local].conn[p] = NoConn =>
        LET s == Joining(p)
            t == onPeerJoin(s, p)
        IN /\ HasId(t.pendingPeerInfo, p)
           /\ t.out = <<[to |-> p, msg |-> UsernameMsg(s.username)]>>
           /\ [t EXCEPT !.pendingPeerInfo = s.pendingPeerInfo, !.out = s.out] = s

\* admitSelf makes the roster self followed by the pendingPeerInfo entries.
RosterFromPending(s, t) ==
  /\ Len(t.peers) = 1 + Len(s.pendingPeerInfo)
  /\ t.peers[1].peerId = s.selfId
  /\ \A i \in 1..Len(s.pendingPeerInfo) : t.peers[i + 1].peerId = s.pendingPeerInfo[i].peerId

\* admitSelf issues one addStream on the connection of each pendingPeerInfo entry.
StreamToEach(s, t) ==
  \A p \in Ids(s.pendingPeerInfo) : Linked(s, p) => t.tx[p].adds = s.tx[p].adds + 1

\* C18: while not admitted the client issues no addStream; on a peer-join it
\* only records the peer in pendingPeerInfo and sends its username; at
\* admission the roster is exactly self plus every pendingPeerInfo entry and
\* addStream is issued once to each of those peers.
C18_KnockingHoldsStream ==
  /\ [][NoStreamWhileKnocking]_vars
  /\ [](JoinOnlyRecords /\
         ((~cl[Local].admitted /\ cl[Local].room # 0) =>
            LET s == In(Local)
                t == admitSelf(s)
            IN RosterFromPending(s, t) /\ StreamToEach(s, t)))

\* C18 amended: addStream is issued at admission by a client that holds a
\* local stream; a client without a microphone issues none.
C18_KnockingHoldsStreamWithMic ==
  /\ [][NoStreamWhileKnocking]_vars
  /\ [](JoinOnlyRecords /\
         ((~cl[Local].admitted /\ cl[Local].room # 0) =>
            LET s == In(Local)
                t == admitSelf(s)
            IN /\ RosterFromPending(s, t)
               /\ IF s.localStream THEN StreamToEach(s, t) ELSE t.tx = s.tx))

\* A knocking client with a microphone has recorded a connected peer and is
\* about to be admitted.
C18_Witness ==
  /\ ~cl[Local].admitted /\ cl[Local].room # 0 /\ cl[Local].localStream
  /\ \E p \in Remote :
       /\ Linked(cl[Local], p) /\ HasId(cl[Local].pendingPeerInfo, p)
       /\ cl[Local].tx[p].adds = 0
       /\ admitSelf(In(Local)).tx[p].adds = 1

\* C19: pendingPeerInfo is non-empty only while the admitted flag is false, and
\* the step that admits the client moves every entry into the roster and
\* leaves pendingPeerInfo empty.
C19_PendingOnlyWhileKnocking ==
  /\ [](cl[Local].pendingPeerInfo # <<>> => ~cl[Local].admitted)
  /\ [][(~cl[Local].admitted /\ cl'[Local].admitted /\ cl'[Local].room = cl[Local].room
          /\ cl[Local].room # 0)
        => /\ cl'[Local].pendingPeerInfo = <<>>
           /\ Ids(cl[Local].pendingPeerInfo) \subseteq Ids(cl'[Local].peers)]_vars

\* A knocking client holds a recorded peer that admission will move into the roster.
C19_Witness ==
  /\ ~cl[Local].admitted /\ cl[Local].room # 0 /\ cl[Local].view = "knocking"
  /\ cl[Local].pendingPeerInfo # <<>>
  /\ LET t == admitSelf(In(Local))
     IN t.pendingPeerInfo = <<>> /\ Len(t.peers) = 1 + Len(cl[Local].pendingPeerInfo)

\* C20: in every reachable state no peer id is both in peers and in
\* pendingKnocks: a KnockRequest becomes a Peer or is dropped, never both.
C20_PeerXorKnock ==
  \A c \in Clients : Ids(cl[c].peers) \cap Ids(cl[c].pendingKnocks) = {}

\* The routing of s and t is the same: routing map and the track each
\* connection carries.
SameRouting(s, t) == t.peerTrackState = s.peerTrackState /\ t.tx = s.tx

\* C21: startWhisper or stopWhisper called for a target that is not a known
\* peer (it has left the room) is ignored: no peer's routing state changes and
\* the target does not become the active whisper target.
C21_StaleWhisperIgnored ==
  \A p \in Remote :
    ~HasId(cl[Local].peers, p) =>
      LET s == In(Local)
          a == startWhisper(s, p)
          b == stopWhisper(s, p)
      IN /\ SameRouting(s, a) /\ a.activeWhisperTarget # p
         /\ SameRouting(s, b)

\* stopWhisper alone, for a target that has left.
C21_StaleStopIgnored ==
  \A p \in Remote :
    ~HasId(cl[Local].peers, p) => SameRouting(In(Local), stopWhisper(In(Local), p))

\* Handler result t leaves talking, whisper and routing of s alone and sends
\* no talking or whisper message.
Quiet(s, t) ==
  /\ t.isTalking = s.isTalking /\ t.whisperTarget = s.whisperTarget
  /\ SameRouting(s, t)
  /\ \A i \in 1..Len(t.out) : t.out[i].msg.ch \notin {"talking", "whisper"}

\* createRoom / joinRoom whose initAudio() fails still set the room up, with noMic.
SessionWithoutMic ==
  cl[Local].pend # <<>> =>
    LET t == resume(In(Local), FALSE) IN t.room # 0 /\ t.noMic /\ t.view \in {"room", "knocking"}

\* C22: when media initialisation fails the session is still established with
\* noMic = true, and while noMic is true the push-to-talk and whisper triggers
\* (pointer on the own mouth or on a peer icon, Space down and up) change
\* neither isTalking, whisperTarget nor any routing state and send no talking
\* or whisper message.
C22_NoMicControlsInert ==
  /\ SessionWithoutMic
  /\ cl[Local].noMic =>
       LET s == In(Local)
       IN /\ Quiet(s, keydown(s))
          /\ Quiet(s, keyup(s))
          /\ (s.view = "room" /\ Ids(s.peers) \ {s.myPeerId} # {}) => Quiet(s, whisperStop(s))

\* The part of C22 about the triggers that start talking or whispering.
C22_NoMicNothingStarts ==
  /\ SessionWithoutMic
  /\ cl[Local].noMic => Quiet(In(Local), keydown(In(Local)))

\* What a batch may write to a boolean field of the store.
BoolFields == {"knockEnabled", "admitted", "isTalking", "noMic"}

\* The calls made for prop X.
CallsFor(st, X) == SelectSeq(st.calls, LAMBDA c : c.prop = X)

\* C23: a batch that writes X twice, value1 then value2, calls the
\* subscribers exactly once for X, with newValue = value2 and oldValue = the
\* value X had before the batch, not value1.
C23_BatchMergesWrites ==
  \A X \in BoolFields, value1 \in BOOLEAN, value2 \in BOOLEAN :
    LET st == storeOf(In(Local))
        t == batch(st, <<[prop |-> X, value |-> value1], [prop |-> X, value |-> value2]>>)
    IN /\ Len(CallsFor(t, X)) = 1
       /\ CallsFor(t, X)[1].value = value2
       /\ CallsFor(t, X)[1].oldValue = st.target[X]

\* C23 for two writes of which at least one changes X.
C23_BatchMergesChanges ==
  \A X \in BoolFields, value1 \in BOOLEAN, value2 \in BOOLEAN :
    LET st == storeOf(In(Local))
        t == batch(st, <<[prop |-> X, value |-> value1], [prop |-> X, value |-> value2]>>)
    IN IF value1 = st.target[X] /\ value2 = value1
       THEN t.calls = <<>>
       ELSE /\ Len(CallsFor(t, X)) = 1
            /\ CallsFor(t, X)[1].value = value2
            /\ CallsFor(t, X)[1].oldValue = st.target[X]
            /\ t.target[X] = value2

\* knockEnabled is on and a batch turns it off and on again: the one call
\* reports the value before the batch as oldValue.
C23_Witness ==
  /\ cl[Local].room # 0 /\ cl[Local].knockEnabled
  /\ LET t == batch(storeOf(In(Local)),
                    <<[prop |-> "knockEnabled", value |-> FALSE],
                      [prop |-> "knockEnabled", value |-> TRUE]>>)
     IN t.calls = <<[prop |-> "knockEnabled", value |-> TRUE, oldValue |-> TRUE,
                     seen |-> t.target]>>

\* The store ends as the handler leaves it.
SameStore(ops, t) == commit(storeOf(In(Local)), ops).target = storeOf(t).target

\* The write sequences above and the handlers they belong to agree on the
\* store they produce.
WritesMatchHandlers ==
  LET s == In(Local)
  IN /\ SameStore(admitSelfWrites(s), admitSelf(s))
     /\ SameStore(leaveRoomWrites(s), leaveRoom(s))
     /\ \A p \in Remote :
          /\ SameStore(onPeerLeaveWrites(s, p), onPeerLeave(s, p))
          /\ \A f \in BOOLEAN :
               /\ SameStore(resolveKnockWrites(s, p, f), resolveKnock(s, p, f))
               /\ SameStore(getKnockReplyWrites(s, KnockReply(p, f)),
                            getKnockReply(s, KnockReply(p, f)))
               /\ SameStore(getKnockModeWrites(s, KnockMode(f, p)),
                            getKnockMode(s, KnockMode(f, p)))

\* If the writes change more than one field, every call to the subscribers
\* made during them shows the store as the writes leave it.
Atomic(ops) ==
  LET st == storeOf(In(Local))
      t == commit(st, ops)
  IN Cardinality({f \in StoreFields : t.target[f] # st.target[f]}) > 1 =>
       \A i \in 1..Len(t.calls) : t.calls[i].seen = t.target

\* The transitions that peer.js wraps in one batch.
BatchedCommitsAtomic ==
  LET s == In(Local)
  IN /\ Atomic(admitSelfWrites(s))
     /\ Atomic(leaveRoomWrites(s))
     /\ \A p \in Remote, f \in BOOLEAN : Atomic(getKnockModeWrites(s, KnockMode(f, p)))

\* C24: admission, a received mode change, a knock approval that moves a
\* KnockRequest into the roster, the creator's departure and leave each commit
\* their store writes atomically: no subscriber is called between two writes
\* of the same transition, so none reads a half-updated store.
C24_AtomicCommits ==
  LET s == In(Local)
  IN /\ BatchedCommitsAtomic
     /\ \A p \in Remote :
          /\ Atomic(onPeerLeaveWrites(s, p))
          /\ \A f \in BOOLEAN :
               /\ Atomic(resolveKnockWrites(s, p, f))
               /\ Atomic(getKnockReplyWrites(s, KnockReply(p, f)))

\* C25: a mode message, from any sender and whether or not the receiver is
\* admitted, makes knockEnabled and creatorId exactly the message's values;
\* if enabled is false every KnockRequest held is moved into the roster and
\* pendingKnocks becomes empty.
C25_ModeLastWriterWins ==
  \A p \in Remote, enabled \in BOOLEAN, creatorId \in Clients :
    LET s == In(Local)
        t == Receive(s, KnockMode(enabled, creatorId), p)
    IN /\ t.knockEnabled = enabled
       /\ t.creatorId = creatorId
       /\ ~enabled => /\ t.pendingKnocks = <<>>
                      /\ Ids(s.pendingKnocks) \subseteq Ids(t.peers)
       /\ enabled => t.pendingKnocks = s.pendingKnocks /\ t.peers = s.peers

\* A member of a knock-mode room that knows its creator and holds a
\* KnockRequest is connected to another peer, whose mode message would turn
\* knocking off and name a new creator.
C25_Witness ==
  \E p \in Remote, k \in Remote :
    /\ cl[Local].room # 0 /\ cl[Local].admitted /\ cl[Local].knockEnabled
    /\ cl[Local].creatorId \notin {Null, p}
    /\ Linked(cl[Local], p)
    /\ HasId(cl[Local].pendingKnocks, k) /\ ~HasId(cl[Local].peers, k)
    /\ LET t == Receive(In(Local), KnockMode(FALSE, p), p)
       IN t.creatorId = p /\ HasId(t.peers, k)

\* Receive m1 then m2, both from p.
Receive2(s, m1, m2, p) == Receive(Receive(s, m1, p), m2, p)

\* The roster and the KnockRequests as sets of records.
Roster(s) == {s.peers[i] : i \in 1..Len(s.peers)}
Knocks(s) == {s.pendingKnocks[i] : i \in 1..Len(s.pendingKnocks)}

\* An admitted member holding a KnockRequest for K ends with the same roster
\* and pendingKnocks whichever of reply(K) and mode it receives first.
MemberOrderTolerant ==
  cl[Local].admitted =>
    \A K \in Ids(cl[Local].pendingKnocks), p \in Remote, approved \in BOOLEAN,
       enabled \in BOOLEAN, creatorId \in Clients :
      LET s == In(Local)
          a == Receive2(s, KnockReply(K, approved), KnockMode(enabled, creatorId), p)
          b == Receive2(s, KnockMode(enabled, creatorId), KnockReply(K, approved), p)
      IN Roster(a) = Roster(b) /\ Knocks(a) = Knocks(b)

\* A knocking client ends with the same admitted, knockEnabled and creatorId
\* whichever of its approving reply and mode it receives first.
KnockerOrderTolerant ==
  (~cl[Local].admitted /\ cl[Local].room # 0) =>
    \A p \in Remote, enabled \in BOOLEAN, creatorId \in Clients :
      LET s == In(Local)
          a == Receive2(s, KnockReply(s.selfId, TRUE), KnockMode(enabled, creatorId), p)
          b == Receive2(s, KnockMode(enabled, creatorId), KnockReply(s.selfId, TRUE), p)
      IN /\ a.admitted = b.admitted /\ a.knockEnabled = b.knockEnabled
         /\ a.creatorId = b.creatorId

\* C26: admission messages are order-tolerant. For an admitted member holding
\* a KnockRequest for K, a reply about K and a mode message delivered in either
\* order give the same roster and pendingKnocks; for a knocking client, its
\* approving reply delivered before or after the mode message gives the same
\* admitted, knockEnabled and creatorId.
C26_AdmissionOrderTolerant == MemberOrderTolerant /\ KnockerOrderTolerant

\* C27: when an approving and a denying reply about the same knocking peer K
\* are both delivered to an admitted member, the one delivered last wins: K is
\* in the member's roster iff the last reply had approved = true.
C27_LastReplyWins ==
  cl[Local].admitted =>
    \A K \in Ids(cl[Local].pendingKnocks) \ Ids(cl[Local].peers), p \in Remote,
       last \in BOOLEAN :
      LET t == Receive2(In(Local), KnockReply(K, ~last), KnockReply(K, last), p)
      IN HasId(t.peers, K) = last

\* The same when the approval is the reply delivered last.
C27_LastApprovalWins ==
  cl[Local].admitted =>
    \A K \in Ids(cl[Local].pendingKnocks) \ Ids(cl[Local].peers), p \in Remote :
      HasId(Receive2(In(Local), KnockReply(K, FALSE), KnockReply(K, TRUE), p).peers, K)

\* The remote peers whose connection carries another track in t than in s.
Replaced(s, t) == {p \in Clients : t.tx[p].track # s.tx[p].track}

\* The remote peers whose routing state differs between s and t.
Rerouted(s, t) == {p \in Clients : TrackOf(t, p) # TrackOf(s, p)}

\* C28: startWhisper and stopWhisper replace the track of a peer only when
\* that peer's routing state changes, and a replacement made for one peer
\* leaves the routing state and the connection of every other peer as they were.
C28_ReplaceOnlyOnChange ==
  LET s == In(Local)
  IN /\ \A target \in Remote :
          /\ Replaced(s, startWhisper(s, target)) \subseteq Rerouted(s, startWhisper(s, target))
          /\ Replaced(s, stopWhisper(s, target)) \subseteq Rerouted(s, stopWhisper(s, target))
     /\ \A target \in Remote, p \in Remote :
          LET a == startWhisperPeer(s, p, target)
              b == stopWhisperPeer(s, p)
          IN \A q \in Clients \ {p} :
               /\ TrackOf(a, q) = TrackOf(s, q) /\ a.tx[q] = s.tx[q]
               /\ TrackOf(b, q) = TrackOf(s, q) /\ b.tx[q] = s.tx[q]

\* A whisper is about to start in a room where one peer is the target and
\* another will be switched to the silent track.
C28_Witness ==
  \E target \in Remote, q \in Remote :
    /\ q # target
    /\ cl[Local].activeWhisperTarget = Null /\ CanRoute(cl[Local])
    /\ HasId(cl[Local].peers, target) /\ HasId(cl[Local].peers, q)
    /\ Linked(cl[Local], q) /\ cl[Local].tx[q].track = "real"
    /\ Replaced(In(Local), startWhisper(In(Local), target)) = {q}

\* C29: KnockRequests are held only by admitted clients: whenever
\* pendingKnocks is non-empty the admitted flag is true and a session is active.
C29_KnocksOnlyWhenAdmitted ==
  cl[Local].pendingKnocks # <<>> => cl[Local].admitted /\ cl[Local].room # 0

\* The admitted half of C29.
C29_KnocksImplyAdmitted ==
  cl[Local].pendingKnocks # <<>> => cl[Local].admitted

\* The presence messages a peer can send, with the Peer field each replaces.
PresenceMsgs ==
  {[msg |-> TalkingMsg(f), field |-> "isTalking", value |-> f] : f \in BOOLEAN}
    \cup {[msg |-> IdleMsg(f), field |-> "isIdle", value |-> f] : f \in BOOLEAN}
    \cup {[msg |-> UsernameMsg(n), field |-> "username", value |-> n] : n \in UserNames}
    \cup {[msg |-> RenameMsg(n), field |-> "username", value |-> n] : n \in UserNames}

\* after is before with, at most, field replaced by value in the entries of P.
OnlyField(before, after, P, field, value) ==
  /\ Len(after) = Len(before)
  /\ \A i \in 1..Len(before) :
       after[i] = IF before[i].peerId = P THEN [before[i] EXCEPT ![field] = value]
                  ELSE before[i]

\* C30: an incoming talking, idle, username or rename message only replaces
\* the field it carries in the sender's Peer record (a username message also in
\* the sender's KnockRequest and pendingPeerInfo entry). No id is added to or
\* removed from peers, pendingKnocks or pendingPeerInfo, no other peer's record
\* changes, nothing else changes, and the message is a no-op when the sender
\* is unknown.
C30_PresenceFrame ==
  \A P \in Remote, m \in PresenceMsgs :
    LET s == In(Local)
        t == Receive(s, m.msg, P)
    IN /\ OnlyField(s.peers, t.peers, P, m.field, m.value)
       /\ IF m.msg.ch = "username"
          THEN /\ OnlyField(s.pendingKnocks, t.pendingKnocks, P, "username", m.value)
               /\ OnlyField(s.pendingPeerInfo, t.pendingPeerInfo, P, "username", m.value)
          ELSE t.pendingKnocks = s.pendingKnocks /\ t.pendingPeerInfo = s.pendingPeerInfo
       /\ [t EXCEPT !.peers = s.peers, !.pendingKnocks = s.pendingKnocks,
                    !.pendingPeerInfo = s.pendingPeerInfo] = s
       /\ (~HasId(s.peers, P) /\ ~HasId(s.pendingKnocks, P) /\ ~HasId(s.pendingPeerInfo, P))
            => t = s

\* The roster holds the sender and another peer when the sender's talking
\* message arrives; a KnockRequest of a third is held as well.
C30_Witness ==
  \E P \in Remote, q \in Remote :
    /\ q # P
    /\ Linked(cl[Local], P)
    /\ HasId(cl[Local].peers, P) /\ HasId(cl[Local].peers, cl[Local].selfId)
    /\ HasId(cl[Local].pendingKnocks, q)
    /\ Receive(In(Local), TalkingMsg(TRUE), P).peers # cl[Local].peers

\* Longest run of writes a batch function makes.
MaxWrites == 3

\* The fields and values the batch functions write.
BatchFields == {"knockEnabled", "admitted"}

BatchWrite == {W(X, v) : X \in BatchFields, v \in BOOLEAN}

BatchFns ==
  UNION {[1..n -> BatchWrite] : n \in 1..MaxWrites}

\* The fields of a run of writes, each once, in the order of their first write.
RECURSIVE FirstWritten(_, _)
FirstWritten(seen, writes) ==
  IF writes = <<>> THEN <<>>
  ELSE IF Head(writes).prop \in seen THEN FirstWritten(seen, Tail(writes))
       ELSE <<Head(writes).prop>> \o FirstWritten(seen \cup {Head(writes).prop}, Tail(writes))

\* The fields that some write of the run changes, each once, in the order of
\* the first write that changes them; target is the store before the run.
RECURSIVE FirstChanged(_, _, _)
FirstChanged(target, seen, writes) ==
  IF writes = <<>> THEN <<>>
  ELSE LET w == Head(writes)
           next == [target EXCEPT ![w.prop] = w.value]
       IN IF target[w.prop] = w.value
          THEN FirstChanged(target, seen, Tail(writes))
          ELSE IF w.prop \in seen THEN FirstChanged(next, seen, Tail(writes))
               ELSE <<w.prop>> \o FirstChanged(next, seen \cup {w.prop}, Tail(writes))

\* The fields the subscribers were called for, in call order.
CalledFor(st) == [i \in 1..Len(st.calls) |-> st.calls[i].prop]

Range(seq) == {seq[i] : i \in 1..Len(seq)}

\* Every call of the batch was made after its last write and before it returned.
HeldUntilDone(t) ==
  /\ \A i \in 1..Len(t.calls) : t.calls[i].seen = t.target
  /\ ~t.batching /\ t.pendingChanges = <<>>

\* C31: batch fires one notification per distinct changed field, in the order
\* in which the fields were first written inside the batch, none of them
\* before the batch function has finished and all of them before batch returns.
C31_BatchOrder ==
  \A fn \in BatchFns :
    LET st == storeOf(In(Local))
        t == batch(st, fn)
        changed == Range(FirstChanged(st.target, {}, fn))
    IN /\ CalledFor(t) = SelectSeq(FirstWritten({}, fn), LAMBDA X : X \in changed)
       /\ HeldUntilDone(t)

\* C31 amended: the order is that of the first write that changed each field.
C31_BatchOrderOfChange ==
  \A fn \in BatchFns :
    LET st == storeOf(In(Local))
        t == batch(st, fn)
    IN /\ CalledFor(t) = FirstChanged(st.target, {}, fn)
       /\ HeldUntilDone(t)

\* In a knock-mode room a batch writes knockEnabled with the value it has,
\* then admitted, then knockEnabled again: the subscribers are called for
\* admitted first.
C31_Witness ==
  /\ cl[Local].room # 0 /\ cl[Local].knockEnabled /\ cl[Local].admitted
  /\ CalledFor(batch(storeOf(In(Local)),
                     <<W("knockEnabled", TRUE), W("admitted", FALSE),
                       W("knockEnabled", FALSE)>>))
       = <<"admitted", "knockEnabled">>

\* Member a, admitted and in knock mode, holds the knock of b, the two are
\* connected to each other in the same room, and b has received everything a
\* sent it.
KnockPendingAt(a, b) ==
  /\ net[<<a, b>>] = <<>>
  /\ cl[a].room # 0 /\ cl[a].admitted /\ cl[a].knockEnabled
  /\ HasId(cl[a].pendingKnocks, b)
  /\ cl[b].room # 0 /\ cl[b].roomCode = cl[a].roomCode
  /\ Linked(cl[a], b) /\ Linked(cl[b], a)

\* The 3 s timer armed by the joinRoom of b's current session fires.
AdmitTimerFires(b) ==
  /\ cl[b].admitTimers # <<>>
  /\ Head(cl[b].admitTimers) = cl[b].admitTimeout
  /\ cl'[b].admitTimers = Tail(cl[b].admitTimers)
  /\ cl'[b].room = cl[b].room
  /\ net' = net

\* C32: a client whose knock is pending at a present member in knock mode
\* becomes Admitted only through an 'admitted' signal or an approving reply:
\* the 3 s self-promotion timer does not admit it.
C32_TimerKeepsKnocking ==
  [][\A a, b \in Mesh :
       (a # b /\ KnockPendingAt(a, b) /\ ~cl[b].admitted /\ AdmitTimerFires(b))
         => ~cl'[b].admitted]_vars

\* C33: the local client enters Rejected only from Knocking: a reply with
\* approved = false addressed to a client that is already Admitted changes
\* neither its view nor its roster and schedules no leave-and-recreate.
C33_RejectedOnlyFromKnocking ==
  [][\A p \in Remote :
       (DenialArrives(p, Local) /\ cl[Local].admitted)
         => /\ cl'[Local].view = cl[Local].view
            /\ cl'[Local].peers = cl[Local].peers
            /\ cl'[Local].rejectTimers = cl[Local].rejectTimers]_vars

\* The oldest pending cooldown was armed by a rejection in a session other
\* than the one the client is in now.
LateCooldown(s) ==
  /\ s.rejectTimers # <<>>
  /\ s.room # 0
  /\ Head(s.rejectTimers) # s.room

\* C34: the leave-and-recreate scheduled by a rejection tears down only the
\* session in which the rejection occurred: when the client has meanwhile
\* entered another session, the expiring cooldown leaves that session alone
\* and creates no room.
C34_CooldownOwnSession ==
  LET s == In(Local)
  IN LateCooldown(s) =>
       \A code \in Codes :
         LET t == rejectTimeoutFired(s, code)
         IN /\ t.room = s.room
            /\ t.handles = s.handles
            /\ t.pend = s.pend

\* C34, duplicated replies: a denial that reaches a client already Rejected in
\* the same session schedules no second leave-and-recreate.
C34_OneCooldownPerRejection ==
  \A i, j \in 1..Len(cl[Local].rejectTimers) :
    cl[Local].rejectTimers[i] = cl[Local].rejectTimers[j] => i = j

\* C35: createRoom and joinRoom suspend while awaiting initAudio; for every
\* interleaving of leaveRoom, createRoom and joinRoom with the pending
\* continuations, the client holds at most one transport room handle and at
\* most one admission timer at any time.
C35_OneHandleOneTimer ==
  /\ Cardinality(cl[Local].handles) <= 1
  /\ Len(cl[Local].admitTimers) <= 1

\* C35, leaving during the wait: once no continuation is pending, a client
\* whose last call was leaveRoom holds no room handle.
C35_LeaveDuringWait ==
  LET s == In(Local)
  IN (s.pend # <<>> /\ s.room = 0) =>
       LET t == resume(leaveRoom(s), TRUE)
       IN t.pend = <<>> => (t.room = 0 /\ t.handles = {})

\* C35, the admitted flag: the continuation of a joinRoom sets the room up as
\* not admitted.
C35_JoinerSetUpKnocking ==
  LET s == In(Local)
  IN (s.pend # <<>> /\ Head(s.pend).kind = "join") => ~resume(s, TRUE).admitted

\* The reply of p approving q reaches the getKnock of a.
ApprovalOfArrives(p, a, q) ==
  /\ net[<<p, a>>] # <<>>
  /\ Head(net[<<p, a>>]).msg = KnockReply(q, TRUE)
  /\ net'[<<p, a>>] = Tail(net[<<p, a>>])
  /\ cl'[a].room = cl[a].room /\ cl[a].room # 0
  /\ cl'[a].conn = cl[a].conn /\ Linked(cl[a], p)

\* C36: a reply with approved = true, or a mode message with enabled = false,
\* never materializes a Peer for an id that is not connected: a reply about a
\* peer that is not connected, or about a peer for which no KnockRequest is
\* held, adds nothing to the roster.
C36_ReplyAddsOnlyConnectedKnockers ==
  [][\A p, a, q \in Clients :
       (/\ p # a /\ q # a /\ q # p
        /\ ApprovalOfArrives(p, a, q)
        /\ (~Linked(cl[a], q) \/ ~HasId(cl[a].pendingKnocks, q)))
         => cl'[a].peers = cl[a].peers]_vars

\* C36, mode message: turning knocking off adds only connected peers.
C36_ModeOffAddsOnlyConnected ==
  LET s == In(Local)
  IN \A p \in Remote, creatorId \in Clients :
       (s.room # 0 /\ Linked(s, p))
         => \A q \in Ids(Receive(s, KnockMode(FALSE, creatorId), p).peers) \ Ids(s.peers) :
              Linked(s, q)

\* C37: whenever knockEnabled is false at an admitted client, its
\* pendingKnocks is empty: every way knocking gets turned off resolves or
\* clears all outstanding KnockRequests.
C37_NoKnocksWhenOpen ==
  LET s == cl[Local]
  IN (s.room # 0 /\ s.admitted /\ ~s.knockEnabled) => s.pendingKnocks = <<>>

\* How many entries of a roster or of pendingKnocks carry the id p.
Count(list, p) == Cardinality({i \in 1..Len(list) : list[i].peerId = p})

NoDuplicates(s) ==
  /\ \A p \in Clients : Count(s.peers, p) <= 1 /\ Count(s.pendingKnocks, p) <= 1
  /\ (s.room # 0 /\ s.admitted) => Count(s.peers, s.selfId) = 1

\* C38: after any sequence of events, no peer id appears more than once in
\* peers or more than once in pendingKnocks, and while admitted with an active
\* session the roster contains the local client's own id exactly once; a
\* peer-join or a knock message that comes again keeps it so.
C38_NoDuplicates ==
  /\ \A c \in Clients : NoDuplicates(cl[c])
  /\ cl[Local].room # 0 =>
       \A p \in Remote :
         /\ NoDuplicates(onPeerJoin(Joining(p), p))
         /\ NoDuplicates(onPeerJoin(onPeerJoin(Joining(p), p), p))
         /\ Linked(cl[Local], p) =>
              \A m \in KnockMsgs(p) :
                NoDuplicates(Receive(Receive(In(Local), m, p), m, p))

\* The roster holds a peer that is not connected (an approving reply put it
\* there), knocking is off, and the peer-join of that peer comes: the roster
\* still holds it once.
C38_Witness ==
  LET s == cl[Local]
  IN /\ s.room # 0 /\ s.admitted /\ ~s.knockEnabled
     /\ \E p \in Remote :
          /\ HasId(s.peers, p) /\ s.conn[p] = NoConn
          /\ Count(onPeerJoin(Joining(p), p).peers, p) = 1

\* C39: batch notifies only for fields that actually changed: a field whose
\* value after the batch equals the value it held before the batch began
\* (written a -> b -> a) produces no notification.
C39_BatchOnlyChanged ==
  \A fn \in BatchFns :
    LET st == storeOf(In(Local))
        t == batch(st, fn)
    IN \A X \in BatchFields :
         t.target[X] = st.target[X] => CallsFor(t, X) = <<>>

====
